---- MODULE Spec2Model ----
(***************************************************************************)
(* IQR outlier detection of stroke_risk_utils.py: detect_anomalies_iqr    *)
(* (the table of anomalous rows, with printed diagnostics) and            *)
(* flag_anomalies (the boolean mask).                                     *)
(*                                                                         *)
(* Numbers.  Every float of the program is kept exactly, as an integer    *)
(* count of eighths inside a one-element tuple: <<8>> is 1.0, <<5>> is    *)
(* 0.625.  NaN is the empty tuple <<>>.  The datasets of the model hold   *)
(* integer values, for which the quartiles are multiples of 1/4 and the   *)
(* bounds multiples of 1/8, so binary floating point is exact on them too.*)
(*                                                                         *)
(* Frames.  A DataFrame built from rows of df is the sequence of the      *)
(* index labels of those rows; the cell of such a row in column f is      *)
(* df.data[f][label].                                                     *)
(***************************************************************************)
EXTENDS Integers, Sequences, FiniteSets, TLC

VARIABLES df, pc, features, anomalies, anomaly_flags

vars == <<df, pc, features, anomalies, anomaly_flags>>

(* ---- bounds of the model ---- *)
MaxRows == 4
MaxSel == 2
WideRows == 8

(* ---- program constants, in eighths ---- *)
Q25 == 2
Q75 == 6
Whisker == 12

NaN == <<>>
Float(v) == <<8 * v>>
isnan(x) == x = NaN

(* comparisons of floats: any comparison with NaN is False *)
Lt(x, y) == (~isnan(x)) /\ (~isnan(y)) /\ x[1] < y[1]
Gt(x, y) == Lt(y, x)
Le(x, y) == (~isnan(x)) /\ (~isnan(y)) /\ x[1] <= y[1]

(* float subtraction, addition and the product 1.5 * x; NaN propagates *)
Sub(x, y) == IF isnan(x) \/ isnan(y) THEN NaN ELSE <<x[1] - y[1]>>
Add(x, y) == IF isnan(x) \/ isnan(y) THEN NaN ELSE <<x[1] + y[1]>>
Times15(x) == IF isnan(x) THEN NaN ELSE <<(Whisker * x[1]) \div 8>>

(* ---- the pandas operations the two functions use ---- *)
columns(d) == DOMAIN d.data
Index(d) == [i \in 1..d.n |-> i]
is_number(d, f) == d.dtype[f] = "float64"

(* Series.dropna: the non-missing values of a column, in row order *)
dropna(s) == SelectSeq(s, LAMBDA x : ~isnan(x))

(* Series.quantile(q), linear interpolation between order statistics;
   NaN when the column has no value *)
quantile(s, q8) ==
    LET vals == dropna(s)
        srt == SortSeq([i \in 1..Len(vals) |-> vals[i][1]], <)
        n == Len(srt)
        pos8 == q8 * (n - 1)
        lo == pos8 \div 8
        fr == pos8 % 8
        hi == IF fr = 0 THEN lo ELSE lo + 1
    IN IF n = 0 THEN NaN
       ELSE <<srt[lo + 1] + ((srt[hi + 1] - srt[lo + 1]) * fr) \div 8>>

(* q1, q3, iqr, lower_bound and upper_bound of one feature *)
Bounds(d, f) ==
    LET q1 == quantile(d.data[f], Q25)
        q3 == quantile(d.data[f], Q75)
        iqr == Sub(q3, q1)
    IN [q1 |-> q1, q3 |-> q3, iqr |-> iqr,
        lower_bound |-> Sub(q1, Times15(iqr)),
        upper_bound |-> Add(q3, Times15(iqr))]

(* the outlier test with the bounds themselves counted as outside *)
outside_or_on(x, lower_bound, upper_bound) ==
    Le(x, lower_bound) \/ Le(upper_bound, x)

(* (df[feature] < lower_bound) | (df[feature] > upper_bound), one value *)
outside(x, lower_bound, upper_bound) == Lt(x, lower_bound) \/ Gt(x, upper_bound)

(* the boolean Series of that test over the rows of df *)
outlier_mask(d, f) ==
    LET bnd == Bounds(d, f)
        lo == bnd.lower_bound
        up == bnd.upper_bound
    IN [r \in 1..d.n |-> outside(d.data[f][r], lo, up)]

(* the frame df[mask]: the rows of df outside the bounds, in df order *)
feature_anomalies(d, f) ==
    LET m == outlier_mask(d, f)
    IN SelectSeq(Index(d), LAMBDA r : m[r])

(* a row's values over all the columns of df *)
Row(d, r) == [f \in columns(d) |-> d.data[f][r]]

RECURSIVE concat(_)
concat(frames) ==
    IF frames = <<>> THEN <<>> ELSE frames[1] \o concat(Tail(frames))

(* drop_duplicates(keep="last"): the last of the equal rows survives *)
drop_duplicates_last(d, fr) ==
    LET keep(i) == \A j \in (i + 1)..Len(fr) : Row(d, fr[j]) # Row(d, fr[i])
        RECURSIVE go(_)
        go(i) == IF i > Len(fr) THEN <<>>
                 ELSE IF keep(i) THEN <<fr[i]>> \o go(i + 1) ELSE go(i + 1)
    IN go(1)

(* DataFrame.drop_duplicates(): keep the first of the rows equal in every
   column of the frame (the index label is not compared) *)
drop_duplicates(d, fr) ==
    LET keep(i) == \A j \in 1..(i - 1) : Row(d, fr[j]) # Row(d, fr[i])
        RECURSIVE go(_)
        go(i) == IF i > Len(fr) THEN <<>>
                 ELSE IF keep(i) THEN <<fr[i]>> \o go(i + 1) ELSE go(i + 1)
    IN go(1)

(* ---- detect_anomalies_iqr ---- *)
(* the loop over the first k features: the frames appended to
   anomalies_list and the lines printed *)
RECURSIVE scan(_, _, _)
scan(d, fs, k) ==
    IF k = 0 THEN [list |-> <<>>, log |-> <<>>]
    ELSE LET prev == scan(d, fs, k - 1)
             f == fs[k]
         IN IF f \notin columns(d)
            THEN [list |-> prev.list, log |-> Append(prev.log, <<"not found", f>>)]
            ELSE IF ~is_number(d, f)
            THEN [list |-> prev.list, log |-> Append(prev.log, <<"not numerical", f>>)]
            ELSE LET fa == feature_anomalies(d, f)
                 IN [list |-> Append(prev.list, fa),
                     log |-> Append(prev.log,
                                IF fa # <<>> THEN <<"anomalies", f>>
                                             ELSE <<"no anomalies", f>>)]

(* anomalies[features]: KeyError naming the labels that are no column *)
not_in_index(d, fs) == SelectSeq(fs, LAMBDA f : f \notin columns(d))

detect_anomalies_iqr(d, fs) ==
    LET s == scan(d, fs, Len(fs))
    IN IF s.list # <<>>
       THEN IF not_in_index(d, fs) # <<>>
            THEN [status |-> "KeyError", key |-> not_in_index(d, fs),
                  columns |-> <<>>, rows |-> <<>>, log |-> s.log]
            ELSE [status |-> "ok", key |-> <<>>, columns |-> fs,
                  rows |-> drop_duplicates(d, concat(s.list)), log |-> s.log]
       ELSE [status |-> "ok", key |-> <<>>, columns |-> fs, rows |-> <<>>,
             log |-> s.log]

(* ---- flag_anomalies ---- *)
(* anomaly_flags = feature_anomalies: the mask overwritten, not OR-ed *)
overwrite(flags, m) == m

(* anomaly_flags |= feature_anomalies *)
or_accumulate(flags, m) == [i \in DOMAIN flags |-> flags[i] \/ m[i]]

(* the loop over the first k features.  df[feature] raises KeyError for a
   label that is no column; quantile() of the object column raises
   TypeError when the column holds a string, and is NaN (every comparison
   False) when the column has no rows *)
RECURSIVE flag_loop(_, _, _)
flag_loop(d, fs, k) ==
    IF k = 0 THEN [status |-> "ok", key |-> <<>>, mask |-> [i \in 1..d.n |-> FALSE]]
    ELSE LET prev == flag_loop(d, fs, k - 1)
             f == fs[k]
         IN IF prev.status # "ok" THEN prev
            ELSE IF f \notin columns(d)
            THEN [status |-> "KeyError", key |-> <<f>>, mask |-> <<>>]
            ELSE IF (~is_number(d, f)) /\ d.n > 0
            THEN [status |-> "TypeError", key |-> <<>>, mask |-> <<>>]
            ELSE IF ~is_number(d, f) THEN prev
            ELSE [status |-> "ok", key |-> <<>>,
                  mask |-> or_accumulate(prev.mask, outlier_mask(d, f))]

(* flag_anomalies with the membership test of detect_anomalies_iqr: absent
   features are skipped *)
flag_anomalies_skipping(d, fs) ==
    LET present == SelectSeq(fs, LAMBDA f : f \in DOMAIN d.data)
    IN flag_loop(d, present, Len(present))

flag_anomalies(d, fs) == flag_loop(d, fs, Len(fs))

(* ---- the datasets and selectors of the model ---- *)
Names == {"a", "b", "c", "m"}
Cells == {Float(0), Float(1), NaN}
dtypes == [a |-> "float64", b |-> "float64", c |-> "object"]

(* a column of zeros with at most one 1.0 *)
Spike(n) == {[i \in 1..n |-> IF i = p THEN Float(1) ELSE Float(0)] : p \in 0..n}
(* a column of zeros with 1.0 at the rows of S *)
Ones(n, S) == [i \in 1..n |-> IF i \in S THEN Float(1) ELSE Float(0)]

Frame(n, ca, cb, cc) ==
    [n |-> n, dtype |-> dtypes, data |-> [a |-> ca, b |-> cb, c |-> cc]]

SmallFrames ==
    UNION {{Frame(n, ca, cb, [i \in 1..n |-> "x"]) :
              ca \in [1..n -> Cells], cb \in Spike(n)} : n \in 0..MaxRows}

WideFrames ==
    LET n == WideRows
    IN {Frame(n, Ones(n, {p, q}), cb, cc) :
           p \in 1..n, q \in {n}, cb \in Spike(n),
           cc \in {[i \in 1..n |-> "x"],
                   [i \in 1..n |-> IF i % 2 = 0 THEN "x" ELSE "y"]}}

(* the datasets of the documented scenarios, and one with a value on a bound *)
ScenarioFrames ==
    {Frame(Len(ca), [i \in 1..Len(ca) |-> Float(ca[i])],
           [i \in 1..Len(ca) |-> Float(0)], [i \in 1..Len(ca) |-> "x"]) :
        ca \in {<<1, 2, 3, 4, 100>>, <<5, 5, 5, 5>>, <<5, 5, 6, 5, 5>>,
                <<0, 0, 2, 2, 5>>, <<5, 2, 0, 2, 0>>}}

Selectors == UNION {[1..k -> Names] : k \in 0..MaxSel}

NoTable == [status |-> "none", key |-> <<>>, columns |-> <<>>, rows |-> <<>>,
            log |-> <<>>]
NoMask == [status |-> "none", key |-> <<>>, mask |-> <<>>]

Init ==
    /\ df \in SmallFrames \cup WideFrames \cup ScenarioFrames
    /\ pc = "idle"
    /\ features = <<>>
    /\ anomalies = NoTable
    /\ anomaly_flags = NoMask

Detect ==
    /\ pc = "idle"
    /\ \E fs \in Selectors :
         /\ features' = fs
         /\ anomalies' = detect_anomalies_iqr(df, fs)
    /\ pc' = "detected"
    /\ UNCHANGED <<df, anomaly_flags>>

Flag ==
    /\ pc = "idle"
    /\ \E fs \in Selectors :
         /\ features' = fs
         /\ anomaly_flags' = flag_anomalies(df, fs)
    /\ pc' = "flagged"
    /\ UNCHANGED <<df, anomalies>>

Next == Detect \/ Flag

Spec == Init /\ [][Next]_vars

(***************************************************************************)
(* The properties.  They are stated from the definition of the IQR rule,  *)
(* in eighths, over the quartiles of a feature; none of them reads the    *)
(* outlier test of the code.                                              *)
(***************************************************************************)
Range(s) == {s[i] : i \in 1..Len(s)}

detected == pc = "detected"
flagged == pc = "flagged"

absent(f) == f \notin columns(df)
scanned(f) == (~absent(f)) /\ is_number(df, f)
AllScanned == \A i \in 1..Len(features) : scanned(features[i])
SomeAbsent == \E i \in 1..Len(features) : absent(features[i])

(* the value of row r lies strictly below Q1 - 1.5*IQR or strictly above
   Q3 + 1.5*IQR of feature f (all terms multiplied by 8) *)
StrictlyOutside(f, r) ==
    LET b == Bounds(df, f)
        x == df.data[f][r]
    IN /\ x # NaN
       /\ b.q1 # NaN
       /\ \/ 8 * x[1] < 8 * b.q1[1] - 12 * (b.q3[1] - b.q1[1])
          \/ 8 * x[1] > 8 * b.q3[1] + 12 * (b.q3[1] - b.q1[1])

(* row r is anomalous in at least one scanned feature of the selector *)
Anomalous(r) ==
    \E i \in 1..Len(features) : scanned(features[i]) /\ StrictlyOutside(features[i], r)

(* the k-th record of the returned table, and row r of df, over the
   returned columns *)
Record(k) ==
    [j \in 1..Len(anomalies.columns) |-> df.data[anomalies.columns[j]][anomalies.rows[k]]]
Project(r) == [j \in 1..Len(features) |-> df.data[features[j]][r]]
Records == {Record(k) : k \in 1..Len(anomalies.rows)}

(* the features that are columns of df, in selector order *)
Present == SelectSeq(features, LAMBDA f : ~absent(f))

(* C1: when the selector names a feature absent from the dataset,
   detect_anomalies_iqr prints 'not found' for it, does not raise, and
   returns the anomalies found through the remaining features. *)
C1_DegradesGracefully ==
    (detected /\ SomeAbsent) =>
        /\ anomalies.status = "ok"
        /\ \A i \in 1..Len(features) :
              absent(features[i]) => <<"not found", features[i]>> \in Range(anomalies.log)
        /\ anomalies.rows = detect_anomalies_iqr(df, Present).rows

(* C2: with every selector feature present and numeric, the table has the
   selector's columns and holds the record of a dataset row iff the row is
   strictly outside the IQR bounds of at least one selector feature. *)
C2_ExactlyTheOutliers ==
    (detected /\ AllScanned) =>
        /\ anomalies.status = "ok"
        /\ anomalies.columns = features
        /\ \A r \in 1..df.n : (Project(r) \in Records) <=> Anomalous(r)
        /\ \A k \in 1..Len(anomalies.rows) : anomalies.rows[k] \in 1..df.n

(* the documented scenario: values 1,2,3,4,100 have bounds (-1, 7) and the
   single record 100 *)
C2_Witness ==
    /\ detected
    /\ features = <<"a">>
    /\ df.data["a"] = <<Float(1), Float(2), Float(3), Float(4), Float(100)>>
    /\ Bounds(df, "a").lower_bound = Float(-1)
    /\ Bounds(df, "a").upper_bound = Float(7)
    /\ Records = {<<Float(100)>>}
    /\ Len(anomalies.rows) = 1

(* C3: the returned table never holds two records equal on all the
   returned columns. *)
C3_NoDuplicateRecords ==
    (detected /\ anomalies.status = "ok") =>
        \A i, j \in 1..Len(anomalies.rows) : i # j => Record(i) # Record(j)

(* C4: with every selector feature present and numeric, flag_anomalies
   returns one boolean per dataset row, in dataset order, True exactly at
   the rows strictly outside the IQR bounds of at least one selector
   feature; with an empty selector the mask is all False. *)
C4_MaskIsUnionOfOutliers ==
    (flagged /\ AllScanned) =>
        /\ anomaly_flags.status = "ok"
        /\ Len(anomaly_flags.mask) = df.n
        /\ \A i \in 1..df.n : anomaly_flags.mask[i] <=> Anomalous(i)

(* two features flag different rows, and both rows are True in the mask *)
C4_Witness ==
    /\ flagged
    /\ AllScanned
    /\ Len(features) = 2
    /\ \E i, j \in 1..df.n :
          /\ StrictlyOutside(features[1], i) /\ ~StrictlyOutside(features[2], i)
          /\ StrictlyOutside(features[2], j) /\ ~StrictlyOutside(features[1], j)
          /\ anomaly_flags.mask[i] /\ anomaly_flags.mask[j]
    /\ \E i \in 1..df.n : ~anomaly_flags.mask[i]

(* the first selector position holding an absent feature *)
FirstAbsent == CHOOSE i \in 1..Len(features) :
                  absent(features[i]) /\ \A j \in 1..(i - 1) : ~absent(features[j])

(* detect_anomalies_iqr given one absent feature returns the empty table *)
LoneAbsentIsEmptyTable ==
    (detected /\ Len(features) = 1 /\ SomeAbsent) =>
        /\ anomalies.status = "ok"
        /\ anomalies.rows = <<>>
        /\ anomalies.columns = features

(* C5 as stated: whenever the selector holds an absent feature,
   flag_anomalies raises an error naming it and returns no mask, while
   detect_anomalies_iqr given the single absent feature returns an empty
   table. *)
C5_RaisesNamingAbsent ==
    /\ (flagged /\ SomeAbsent) =>
          /\ anomaly_flags.status = "KeyError"
          /\ anomaly_flags.key = <<features[FirstAbsent]>>
          /\ anomaly_flags.mask = <<>>
    /\ LoneAbsentIsEmptyTable

(* C5 amended: whenever the selector holds an absent feature,
   flag_anomalies raises and returns no mask, not even a partial one; the
   error is the lookup error naming the first absent feature, unless a
   non-numeric feature precedes it in a dataset that has rows, and then it
   is the type error raised at that feature; detect_anomalies_iqr given the
   single absent feature returns an empty table. *)
C5_RaisesAtFirstBadFeature ==
    /\ (flagged /\ SomeAbsent) =>
          /\ anomaly_flags.status \in {"KeyError", "TypeError"}
          /\ anomaly_flags.mask = <<>>
          /\ IF df.n > 0 /\ \E j \in 1..(FirstAbsent - 1) : ~scanned(features[j])
             THEN anomaly_flags.status = "TypeError"
             ELSE /\ anomaly_flags.status = "KeyError"
                  /\ anomaly_flags.key = <<features[FirstAbsent]>>
    /\ LoneAbsentIsEmptyTable

(* an outlier of the first feature was already flagged when the absent
   second feature raised: no partial mask is returned *)
C5_Witness ==
    /\ flagged
    /\ Len(features) = 2
    /\ scanned(features[1])
    /\ absent(features[2])
    /\ \E r \in 1..df.n : StrictlyOutside(features[1], r)
    /\ anomaly_flags.status = "KeyError"
    /\ anomaly_flags.key = <<features[2]>>
    /\ anomaly_flags.mask = <<>>

(* the column of feature f holds no value *)
NoValues(f) == \A r \in 1..df.n : df.data[f][r] = NaN

(* C6: when a scanned numeric feature has no values, both functions fail
   with an error instead of returning a result computed from undefined
   bounds. *)
C6_EmptyColumnFailsFast ==
    /\ (detected /\ \E i \in 1..Len(features) :
                       scanned(features[i]) /\ NoValues(features[i]))
          => anomalies.status # "ok"
    /\ (flagged /\ AllScanned /\ \E i \in 1..Len(features) : NoValues(features[i]))
          => anomaly_flags.status # "ok"

(* C7: when every selector feature is skipped or yields no anomaly, in any
   mixture, the table has zero rows and exactly the selector's columns in
   selector order. *)
C7_EmptyTableKeepsSchema ==
    (detected /\ \A r \in 1..df.n : ~Anomalous(r)) =>
        /\ anomalies.status = "ok"
        /\ anomalies.rows = <<>>
        /\ anomalies.columns = features

(* the selector without its last feature *)
Front(s) == SubSeq(s, 1, Len(s) - 1)

(* C8: every row reported for a selector F is still reported for F with
   one more feature, and the longer call does not fail when the shorter
   one succeeds. *)
C8_AddingFeatureIsMonotone ==
    (detected /\ features # <<>>) =>
        LET shorter == detect_anomalies_iqr(df, Front(features))
        IN shorter.status = "ok" =>
              /\ anomalies.status = "ok"
              /\ Range(shorter.rows) \subseteq Range(anomalies.rows)

(* C9: for every scanned feature lower_bound <= Q1 <= Q3 <= upper_bound and
   upper_bound - lower_bound = 4 * (Q3 - Q1); when IQR = 0 both bounds
   equal Q1 and every row holding another value is flagged. *)
C9_BoundsBracketQuartiles ==
    (pc # "idle") =>
        \A i \in 1..Len(features) : scanned(features[i]) =>
            LET b == Bounds(df, features[i])
            IN /\ Le(b.lower_bound, b.q1)
               /\ Le(b.q1, b.q3)
               /\ Le(b.q3, b.upper_bound)
               /\ Sub(b.upper_bound, b.lower_bound)
                    = Add(Add(b.iqr, b.iqr), Add(b.iqr, b.iqr))
               /\ b.iqr = Float(0) =>
                    /\ b.lower_bound = b.q1
                    /\ b.upper_bound = b.q1
                    /\ \A r \in 1..df.n :
                          (df.data[features[i]][r] \notin {NaN, b.q1})
                             => outlier_mask(df, features[i])[r]

(* the position at which the scan first detects row r: features in
   selector order, rows in dataset order within a feature *)
FirstDetection(r) ==
    LET k == CHOOSE i \in 1..Len(features) :
                /\ scanned(features[i]) /\ StrictlyOutside(features[i], r)
                /\ \A j \in 1..(i - 1) :
                      ~(scanned(features[j]) /\ StrictlyOutside(features[j], r))
    IN (k - 1) * df.n + r

(* C10: the returned rows are in the order of their first detection. *)
C10_OrderOfFirstDetection ==
    (detected /\ anomalies.status = "ok") =>
        /\ \A k \in 1..Len(anomalies.rows) : Anomalous(anomalies.rows[k])
        /\ \A i, j \in 1..Len(anomalies.rows) :
              (i < j) <=> (FirstDetection(anomalies.rows[i])
                             < FirstDetection(anomalies.rows[j]))

(* a row found by both features keeps the place of its first detection,
   ahead of a row of smaller index found by the second feature alone *)
C10_Witness ==
    /\ detected
    /\ anomalies.status = "ok"
    /\ Len(features) = 2
    /\ Len(anomalies.rows) = 2
    /\ anomalies.rows[1] > anomalies.rows[2]
    /\ StrictlyOutside(features[1], anomalies.rows[1])
    /\ StrictlyOutside(features[2], anomalies.rows[1])
    /\ ~StrictlyOutside(features[1], anomalies.rows[2])

(***************************************************************************)
(* What does hold of the code where the properties above fail.            *)
(***************************************************************************)
(* for a scanned feature with at least one value the bounds bracket the
   quartiles, are 4 * IQR apart, and collapse on Q1 when IQR = 0 *)
BoundsOfValuesBracketQuartiles ==
    (pc # "idle") =>
        \A i \in 1..Len(features) :
            (scanned(features[i]) /\ ~NoValues(features[i])) =>
                LET b == Bounds(df, features[i])
                IN /\ Le(b.lower_bound, b.q1)
                   /\ Le(b.q1, b.q3)
                   /\ Le(b.q3, b.upper_bound)
                   /\ b.upper_bound[1] - b.lower_bound[1] = 4 * (b.q3[1] - b.q1[1])
                   /\ b.iqr = Float(0) =>
                        /\ b.lower_bound = b.q1
                        /\ b.upper_bound = b.q1
                        /\ \A r \in 1..df.n :
                              (df.data[features[i]][r] \notin {NaN, b.q1})
                                 => outlier_mask(df, features[i])[r]

(* detect_anomalies_iqr raises exactly when a feature was scanned and the
   selector names an absent feature; when it returns, the table has the
   selector's columns, the rows anomalous in a scanned feature, and every
   row of the call without the last feature *)
DetectRaisesOnlyOnAbsentAfterScan ==
    detected =>
        /\ (anomalies.status = "KeyError") <=>
              (SomeAbsent /\ \E i \in 1..Len(features) : scanned(features[i]))
        /\ anomalies.status \in {"ok", "KeyError"}
        /\ anomalies.status = "ok" =>
              /\ anomalies.columns = features
              /\ IF SomeAbsent THEN anomalies.rows = <<>>
                 ELSE \A r \in 1..df.n : (Project(r) \in Records) <=> Anomalous(r)
              /\ features # <<>> =>
                    Range(detect_anomalies_iqr(df, Front(features)).rows)
                       \subseteq Range(anomalies.rows)
        /\ \A i \in 1..Len(features) :
              absent(features[i]) => <<"not found", features[i]>> \in Range(anomalies.log)

====
